---- MODULE Spec2Model ----
(***************************************************************************)
(* Session / job orchestration layer of marxan-server.py:                  *)
(*   - MarxanWebSocketHandler  (open, send_response, close, keep-alive)    *)
(*   - runMarxan               (open, logRun, finishOutput)                *)
(*   - the run log             (_isProjectRunning, _getRunLogs,            *)
(*                              _updateRunLog, clearRunLogs)               *)
(*   - stopProcess             (the 'm' and the 'q' branch)                *)
(*   - QueryWebSocketHandler.executeQuery and PostGIS.execute              *)
(*                                                                         *)
(* Handlers run on one IOLoop thread: a handler is atomic between two      *)
(* awaits that really suspend.  The run log file is the sequence runlog;   *)
(* every function that rewrites the file is modelled as the whole          *)
(* read-modify-write it performs.                                          *)
(***************************************************************************)
EXTENDS Integers, Sequences, FiniteSets, TLC

(* ---------------------------- bounds ----------------------------------- *)
MaxPid      == 2        \* process identifiers the operating system hands out
MaxRuns     == 2        \* largest NUMREPS of a project
MaxRows     == 2        \* rows the run log can hold
MaxTicks    == 2        \* keep-alive ticks of one session

ClumpUser == "_clumping"
Pairs     == {<<"u1", "p1">>, <<"u1", "p2">>, <<ClumpUser, "p1">>}

Pids     == 1..MaxPid

\* NUMREPS in the input.dat of the project (read by _getNumberOfRunsRequired,
\* lines 2729-2739)
_getNumberOfRunsRequired(pair) == IF pair[2] = "p1" THEN MaxRuns ELSE 1

VARIABLES
    sess,       \* sess[s]: the runMarxan handler instance of connection s
    proc,       \* proc[p]: the operating-system process with pid p
    runlog,     \* the run log file: sequence of rows
    files,      \* files[pair]: the output_r* artefacts in the pair's output folder
    hist,       \* hist[s]: what happened to the job of session s (for the properties)
    thr,        \* thr[s]: the polling thread of MarxanSubprocess (Windows only)
    db          \* the PostGIS connection pool and its backends

vars == <<sess, proc, runlog, files, hist, thr, db>>

\* the connections of a behaviour: two clients under the native exit
\* callback, three under the polling thread
Conns    == {1, 2}
WinConns == {1, 2, 3}
Sessions == DOMAIN sess

(* ------------------ MarxanWebSocketHandler as a record ----------------- *)
\* phase    : where the open() coroutine / the job of the handler is
\* chan     : "open", "peerClosed" (client went away), "closed" (super().close)
\* timer    : the PeriodicCallback self.pc: "none" (no attribute), "running", "stopped"
\* flag     : self.clientSentFinalMsg: "unset" (no attribute), "false", "true"
\* nFinished: Finished frames written to the channel
\* finalMsg : the message of the first Finished frame written
\* nPing    : keep-alive frames written to the channel
\* nTick    : times the PeriodicCallback fired
\* nClose   : calls of close() (2 stands for two or more)
\* hasUser  : the request has a 'user' argument, so that self.user is set
\* late     : a frame was written to the channel after a Finished frame
\* latePing : a keep-alive frame was written after a Finished frame or after the close
\* warned   : "The client closed the connection" warnings logged
\* exc      : exception that escaped the handler ("none" if none)
\* pingText : the attribute ping_message is set
\* sentAfter: send_response was called after close() had returned
\* wroteFile: the handler wrote a file of the project after its query
NewSession ==
    [phase |-> "idle", pair |-> <<"u1", "p1">>, chan |-> "open", timer |-> "none",
     flag |-> "unset", nFinished |-> 0, finalMsg |-> "none", nPing |-> 0,
     late |-> FALSE, latePing |-> FALSE, warned |-> 0, exc |-> "none",
     pingText |-> FALSE, pid |-> 0, numReq |-> 0, nTick |-> 0, nClose |-> 0,
     hasUser |-> TRUE, nStarted |-> 0, nPre |-> 0, pubId |-> <<"none", 0>>,
     known |-> <<"none", 0>>, dbError |-> "none", excText |-> "none",
     sentAfter |-> FALSE, wroteFile |-> FALSE]

Cap(n) == IF n > 2 THEN 2 ELSE n

\* the identifier sent in the 'pid' frame of a job, line 5905: 'm' + pid
JobId(p) == <<"m", p>>

\* the identifier sent in the 'pid' frame of a query, line 3037: 'q' + the
\* pid of the backend
QueryId(b) == <<"q", b>>

\* a close() that leaves the channel writable
SuperCloseNot(se) == se

\* a close() that leaves the keep-alive timer running
StopTimerNot(se) == se

\* self.pc.stop() when the handler has a running timer, lines 5809-5811
StopTimer(se) == [se EXCEPT !.timer = IF se.timer = "none" THEN "none" ELSE "stopped"]

\* tornado.websocket.WebSocketHandler.close(1000), line 5827: from then on
\* write_message raises WebSocketClosedError
SuperClose(se) == [se EXCEPT !.chan = IF se.chan = "open" THEN "closed" ELSE se.chan]

\* close(clean=False), lines 5808-5811 and 5821-5827
CloseUnclean(se) ==
    LET a == StopTimer([se EXCEPT !.nClose = Cap(se.nClose + 1)])
    IN  IF a.flag = "unset"
        THEN [a EXCEPT !.exc = "AttributeError"]
        ELSE SuperClose([a EXCEPT !.flag = "true",
                                  !.warned = IF a.flag = "false" THEN Cap(a.warned + 1)
                                             ELSE a.warned])

\* self.write_message(message), line 5795, when the channel accepts the frame
WriteFrame(se, status, msg) ==
    [se EXCEPT !.nFinished = IF status = "Finished" THEN Cap(se.nFinished + 1) ELSE se.nFinished,
               !.nStarted  = IF status = "Started" THEN Cap(se.nStarted + 1) ELSE se.nStarted,
               !.nPre      = IF status = "Preprocessing" THEN Cap(se.nPre + 1) ELSE se.nPre,
               !.finalMsg  = IF status = "Finished" /\ se.nFinished = 0 THEN msg ELSE se.finalMsg,
               !.nPing     = IF status \in {"WebSocketOpen", "PingText"} THEN se.nPing + 1
                             ELSE se.nPing,
               !.late      = se.late \/ se.nFinished > 0,
               !.latePing  = se.latePing \/ (status \in {"WebSocketOpen", "PingText"}
                                             /\ (se.nFinished > 0 \/ se.flag = "true"))]

\* a send_response whose write_message accepts frames on any channel
send_responseNot(se, status, msg) == WriteFrame(se, status, msg)

\* send_response, lines 5773-5797: write_message raises WebSocketClosedError
\* once the connection is closing or closed
send_response(se, status, msg) ==
    IF se.chan = "open" THEN WriteFrame(se, status, msg) ELSE CloseUnclean(se)

\* close(closeMessage, clean=True), lines 5799-5827
close(se, msg) ==
    LET a == StopTimer([se EXCEPT !.nClose = Cap(se.nClose + 1)])
        b == send_response(a, "Finished", msg)
    IN  IF b.exc # "none" THEN b
        ELSE SuperClose([b EXCEPT !.flag = "true"])

\* sendPing, lines 5755-5760
sendPing(se) ==
    IF se.pingText THEN send_response(se, "PingText", "ping_message")
    ELSE send_response(se, "WebSocketOpen", "")

(* ----------------------------- the run log ----------------------------- *)
Row(rid, pid, pair, req) ==
    [rid |-> rid, pid |-> pid, user |-> pair[1], project |-> pair[2],
     done |-> 0, req |-> req, status |-> "Running"]

\* _getNumberOfRunsCompleted, lines 2742-2751
_getNumberOfRunsCompleted(fs, pair) == Cardinality(fs[pair])

\* df.loc[df['pid'] == pid].index.tolist()[0]  (0 when there is no such row)
FirstIdx(df, pid) ==
    IF \E i \in 1..Len(df) : df[i].pid = pid
    THEN CHOOSE i \in 1..Len(df) : df[i].pid = pid /\ \A j \in 1..(i - 1) : df[j].pid # pid
    ELSE 0

\* _isProjectRunning, lines 2687-2699
_isProjectRunning(df, pair) ==
    \E i \in 1..Len(df) :
        df[i].status = "Running" /\ df[i].user = pair[1] /\ df[i].project = pair[2]

\* _getRunLogs, lines 2702-2726: for each Running row, the first row with that
\* pid gets the live count of the Running row's folder and keeps its own "/N"
RECURSIVE RefreshFrom(_, _, _, _)
RefreshFrom(df, orig, fs, n) ==
    IF n > Len(orig) THEN df
    ELSE IF orig[n].status = "Running"
         THEN RefreshFrom([df EXCEPT ![FirstIdx(df, orig[n].pid)].done =
                              _getNumberOfRunsCompleted(fs, <<orig[n].user, orig[n].project>>)],
                          orig, fs, n + 1)
         ELSE RefreshFrom(df, orig, fs, n + 1)

_getRunLogs(df, fs) == RefreshFrom(df, df, fs, 1)

\* an update that says nothing when no row has the pid
_updateRunLogNot(log, fs, pid, startTime, k, n, status) ==
    LET df == _getRunLogs(log, fs)
        i  == FirstIdx(df, pid)
    IN  IF i = 0 THEN [ok |-> TRUE, log |-> log, status |-> status]
        ELSE LET r1 == df[i]
                 r2 == IF k > 0 THEN [r1 EXCEPT !.done = k, !.req = n] ELSE r1
                 r3 == IF r2.status = "Running" THEN [r2 EXCEPT !.status = status] ELSE r2
             IN  [ok |-> TRUE, log |-> [df EXCEPT ![i] = r3], status |-> r3.status]

\* _updateRunLog, lines 2754-2791.  startTime is TRUE when a start time is
\* passed; k is the numRunsCompleted argument (-1 for None).  Result:
\* ok = FALSE when MarxanServicesError is raised (the file is then untouched).
_updateRunLog(log, fs, pid, startTime, k, n, status) ==
    LET df == _getRunLogs(log, fs)
        i  == FirstIdx(df, pid)
    IN  IF i = 0 THEN [ok |-> FALSE, log |-> log, status |-> "none"]
        ELSE LET r1 == df[i]
                 r2 == IF k > 0 THEN [r1 EXCEPT !.done = k, !.req = n] ELSE r1
                 r3 == IF r2.status = "Running" THEN [r2 EXCEPT !.status = status] ELSE r2
             IN  [ok |-> TRUE, log |-> [df EXCEPT ![i] = r3], status |-> r3.status]

\* the index of the row appended by session s (0 when it is not in the log)
RowIdx(log, s) ==
    IF \E i \in 1..Len(log) : log[i].rid = s
    THEN CHOOSE i \in 1..Len(log) : log[i].rid = s
    ELSE 0

StatusOf(log, s) == IF RowIdx(log, s) = 0 THEN "absent" ELSE log[RowIdx(log, s)].status

(* ------------------------------- state --------------------------------- *)
NoProc == [state |-> "free", owner |-> 0, written |-> 0]

\* hist[s] records, for the job of session s: whether its row was appended
\* (logged), whether a stop command was served for its pid (stopCmd), whether
\* that command killed the live process (stopped) and how many artefacts the
\* folder held then (stopK), how the process ended (exitKind), whether
\* finishOutput ran (reconciled) and what its row held right afterwards
\* (endStatus, endDone, endReq), whether its row was removed by clearRunLogs
\* before that (cleared), whether the open() was refused because the
\* project was running (refused), and whether it spawned although a process of
\* the pair was alive with its Running row in the log (rival), and whether
\* it spawned while another open() of the same pair was suspended (contended)
NoHist == [logged |-> FALSE, stopCmd |-> FALSE, stopped |-> FALSE, stopK |-> 0,
           exitKind |-> "none", reconciled |-> FALSE, refused |-> FALSE, rival |-> FALSE,
           endStatus |-> "none", endDone |-> 0, endReq |-> 0, cleared |-> FALSE,
           contended |-> FALSE, denied |-> FALSE, spawnFailed |-> FALSE,
           orphaned |-> FALSE]

\* the thread started by set_exit_callback_windows: pc is "none", "polling",
\* "read" (inside _updateRunLog, between reading and writing the file) or
\* "ended"; df is the run log file it read, fs the output folders as it
\* counted them then
NoThread == [pc |-> "none", df |-> <<>>, fs |-> <<>>]

\* the backends of the pool's connections: db.busy[b] is the session whose
\* query holds connection b (0 when the connection is in the pool) and
\* db.cancel the backends that received a cancel request while executing
Backends == {1, 2, 3}
NoDb == [busy |-> [b \in Backends |-> 0], cancel |-> {}]

Init ==
    /\ sess   = [s \in Conns |-> NewSession]
    /\ proc   = [p \in Pids |-> NoProc]
    /\ runlog = <<>>
    /\ files  = [pr \in Pairs |-> {}]
    /\ hist   = [s \in Conns |-> NoHist]
    /\ thr    = [s \in Conns |-> NoThread]
    /\ db     = NoDb

\* a process of the pair is alive and its own row is Running in the run log
LiveLoggedProcOf(pair) ==
    \E p \in Pids : /\ proc[p].state = "alive"
                    /\ sess[proc[p].owner].pair = pair
                    /\ \E i \in 1..Len(runlog) : /\ runlog[i].rid = proc[p].owner
                                                  /\ runlog[i].status = "Running"

(* ---------------- MarxanWebSocketHandler.open, first part -------------- *)
\* lines 5731-5742: start time, 'Started' frame, then the await of
\* _getProjectData (the query it runs suspends the coroutine)
Connect(s) ==
    /\ sess[s].phase = "idle"
    /\ \A t \in Sessions : t < s => sess[t].phase # "idle"
    /\ \E pair \in Pairs :
         sess' = [sess EXCEPT ![s] =
                    [send_response([NewSession EXCEPT !.pair = pair], "Started", "")
                       EXCEPT !.phase = "opening"]]
    /\ UNCHANGED <<proc, runlog, files, hist>>

(* ------- MarxanWebSocketHandler.open, second part, and runMarxan.open -- *)
\* a denial that only comes after the handler went into Preprocessing
DeniedNot(se) ==
    LET a == send_response(se, "Preprocessing", "")
    IN  close([a EXCEPT !.timer = "running", !.flag = "false"], "RequestDenied")

\* the except (HTTPError) clause of MarxanWebSocketHandler.open, lines
\* 5766-5771, reached from _authenticate / _authoriseRole / _authoriseUser
Denied(se) == close(se, "RequestDenied")

\* lines 5743-5771: authentication failure closes with an error frame
OpenDenied(s) ==
    /\ sess[s].phase = "opening"
    /\ LET c == Denied(sess[s])
       IN  sess' = [sess EXCEPT ![s] =
                      [c EXCEPT !.phase = IF c.exc = "none" THEN "done" ELSE "crashed"]]
    /\ hist' = [hist EXCEPT ![s].denied = TRUE]
    /\ UNCHANGED <<proc, runlog, files>>

\* lines 5751-5765: 'Preprocessing' frame, keep-alive timer, final-message flag
Preprocessing(se) ==
    LET a == send_response(se, "Preprocessing", "")
    IN  IF a.exc # "none" THEN a
        ELSE [a EXCEPT !.timer = "running", !.flag = "false"]

\* a server that logs the jobs of every user
IsLoggedNot(pair) == TRUE

\* self.user != '_clumping', lines 5901 and 5972: clumping runs are not logged
IsLogged(pair) == pair[1] # ClumpUser

\* a start that publishes the pid without writing the row
logRunNot(log, s, p, pair, n) == log

\* runMarxan.logRun, lines 5946-5959: one line appended to the run log file
logRun(log, s, p, pair, n) == Append(log, Row(s, p, pair, n))

\* a running check that lets every start through
AlreadyRunningNot(log, pair) == FALSE

\* a running check that reads the log through _getRunLogs and saves it
RunningCheckLeavesNot(log, fs) == _getRunLogs(log, fs)

\* the log file as the running check leaves it: _isProjectRunning, lines
\* 2696-2699, reads it with _loadCSV and writes nothing
RunningCheckLeaves(log, fs) == log

\* the running check of runMarxan.open, line 5863
AlreadyRunning(log, pair) == _isProjectRunning(log, pair)

\* runMarxan.open, lines 5862-5911, from the running check to the 'pid' frame.
\* Nothing between the check and logRun suspends: projectData is already set,
\* so _getNumberOfRunsRequired returns without awaiting anything.
OpenRun(s) ==
    /\ sess[s].phase = "opening"
    /\ LET a    == Preprocessing(sess[s])
           pair == sess[s].pair
           n    == _getNumberOfRunsRequired(pair)
       IN  IF a.exc # "none"
           THEN /\ sess' = [sess EXCEPT ![s] = [a EXCEPT !.phase = "crashed"]]
                /\ UNCHANGED <<proc, runlog, files, hist>>
           ELSE IF AlreadyRunning(runlog, pair)
           THEN /\ sess' = [sess EXCEPT ![s] = [close(a, "AlreadyRunning") EXCEPT !.phase = "done"]]
                /\ hist' = [hist EXCEPT ![s].refused = TRUE]
                /\ runlog' = RunningCheckLeaves(runlog, files)
                /\ UNCHANGED <<proc, files>>
           ELSE \E exists \in BOOLEAN :
                IF ~exists
                THEN /\ sess' = [sess EXCEPT ![s] = [close(a, "NoProject") EXCEPT !.phase = "done"]]
                     /\ UNCHANGED <<proc, runlog, files, hist>>
                ELSE \E p \in Pids :
                     /\ proc[p].state = "free"
                     /\ pair[1] # ClumpUser => Len(runlog) < MaxRows
                     /\ files' = [files EXCEPT ![pair] = {}]
                     /\ proc' = [proc EXCEPT ![p] = [state |-> "alive", owner |-> s, written |-> 0]]
                     /\ runlog' = IF IsLogged(pair) THEN logRun(runlog, s, p, pair, n)
                                  ELSE runlog
                     /\ sess' = [sess EXCEPT ![s] =
                                   [send_response([a EXCEPT !.pid = p, !.numReq = n, !.pubId = JobId(p)], "pid", "")
                                      EXCEPT !.phase = "streaming"]]
                     /\ hist' = [hist EXCEPT ![s].logged = (pair[1] # ClumpUser),
                                             ![s].rival = LiveLoggedProcOf(pair),
                                             ![s].contended =
                                                 \E t \in Sessions \ {s} :
                                                     /\ sess[t].phase = "opening"
                                                     /\ sess[t].pair = pair]

\* runMarxan.open, lines 5862-5897, when the constructor of the subprocess
\* raises OSError (executable missing or not permitted). The output folder was
\* emptied at line 5871. Off Windows the name WindowsError of line 5894 is
\* undefined and evaluating the except clause raises NameError; on Windows
\* the clause catches the error and closes the session only for winerror
\* 1260, leaving it open with its keep-alive timer otherwise. The else branch
\* (logRun, the 'pid' frame) is skipped.
SpawnFails(s) ==
    /\ sess[s].phase = "opening"
    /\ LET a    == Preprocessing(sess[s])
           pair == sess[s].pair
       IN  /\ a.exc = "none"
           /\ ~AlreadyRunning(runlog, pair)
           /\ files' = [files EXCEPT ![pair] = {}]
           /\ \E how \in {"NameError", "winerror1260", "winerrorOther"} :
                sess' = [sess EXCEPT ![s] =
                           IF how = "NameError"
                           THEN [a EXCEPT !.exc = "NameError", !.phase = "crashed"]
                           ELSE IF how = "winerror1260"
                           THEN [close(a, "BlockedByGroupPolicy") EXCEPT !.phase = "done"]
                           ELSE [a EXCEPT !.phase = "active"]]
           /\ hist' = [hist EXCEPT ![s].spawnFailed = TRUE]
           /\ UNCHANGED <<proc, runlog>>

(* ------------------------- the solver process -------------------------- *)
\* the solver writes the artefact of its next run into the output folder
ProcWrite(p) ==
    /\ proc[p].state = "alive"
    /\ proc[p].written < sess[proc[p].owner].numReq
    /\ proc' = [proc EXCEPT ![p].written = @ + 1]
    /\ files' = [files EXCEPT ![sess[proc[p].owner].pair] = @ \cup {proc[p].written + 1}]
    /\ UNCHANGED <<sess, runlog, hist>>

\* the solver exits after its last run ("normal") or dies at any point ("died")
ProcExit(p) ==
    /\ proc[p].state = "alive"
    /\ \E kind \in {"normal", "died"} :
         /\ kind = "normal" => proc[p].written = sess[proc[p].owner].numReq
         /\ hist' = [hist EXCEPT ![proc[p].owner].exitKind = kind]
    /\ proc' = [proc EXCEPT ![p].state = "zombie"]
    /\ UNCHANGED <<sess, runlog, files>>

(* ------------------------ runMarxan.finishOutput ----------------------- *)
\* a supervisor that may call the exit callback of a process still running
ExitedNot(pr, p) == pr[p].state # "free"

\* what makes the exit callback run: the child has terminated (tornado's
\* set_exit_callback, line 5880; poll() is not None in _poll_completion,
\* line 3269)
Exited(pr, p) == pr[p].state = "zombie"

\* lines 5961-5994, run by the exit callback of the process
FinishOutput(s) ==
    /\ sess[s].phase = "streaming"
    /\ Exited(proc, sess[s].pid)
    /\ LET se   == sess[s]
           pair == se.pair
           k    == _getNumberOfRunsCompleted(files, pair)
           want == IF k = se.numReq THEN "Completed" ELSE "Killed"
           r    == _updateRunLog(runlog, files, se.pid, TRUE, k, se.numReq, want)
           msg  == IF ~IsLogged(pair) THEN "RunCompleted"
                   ELSE IF ~r.ok THEN "UnableToUpdateRunLog"
                   ELSE IF want = "Completed" THEN "RunCompleted"
                   ELSE IF r.status = "Stopped" THEN "StoppedByUser"
                   ELSE "StoppedByOS"
       IN  /\ runlog' = IF ~IsLogged(pair) THEN runlog ELSE r.log
           /\ sess' = [sess EXCEPT ![s] = [close(se, msg) EXCEPT !.phase = "done"]]
           /\ hist' = [hist EXCEPT ![s].reconciled = TRUE,
                                   ![s].endStatus = StatusOf(runlog', s),
                                   ![s].endDone = IF RowIdx(runlog', s) = 0 THEN 0
                                                  ELSE runlog'[RowIdx(runlog', s)].done,
                                   ![s].endReq = IF RowIdx(runlog', s) = 0 THEN 0
                                                 ELSE runlog'[RowIdx(runlog', s)].req]
    /\ proc' = [proc EXCEPT ![sess[s].pid] = NoProc]
    /\ UNCHANGED files

(* ------------------------------ stopProcess ---------------------------- *)
\* os.kill(pid, signal.SIGKILL), line 5387
Kill(pr, p) == [pr EXCEPT ![p].state = "zombie"]

\* stopProcess.get, lines 5375-5399, for a pid tagged 'm': when _updateRunLog
\* raises, the signal is not sent; when the pid is not a process, os.kill
\* raises after the run log was written
StopM(p) ==
    LET r == _updateRunLog(runlog, files, p, FALSE, -1, 0, "Stopped")
        o == proc[p].owner
    IN  /\ r.ok
        /\ runlog' = r.log
        /\ IF proc[p].state = "free" THEN UNCHANGED <<proc, hist>>
           ELSE /\ proc' = Kill(proc, p)
                /\ hist' = IF proc[p].state = "alive"
                           THEN [hist EXCEPT ![o].stopCmd = TRUE, ![o].stopped = TRUE,
                                             ![o].exitKind = "stop",
                                             ![o].stopK = _getNumberOfRunsCompleted(files, sess[o].pair)]
                           ELSE [hist EXCEPT ![o].stopCmd = TRUE]
        /\ UNCHANGED <<sess, files>>

\* stopProcess.get, lines 5383-5392, for a pid tagged 'm' whose process has
\* exited and been reaped while its exit callback is still queued: the run
\* log is written at line 5385, then os.kill raises OSError and the request
\* is answered with 'The pid does not exist'
StopMGone(p) ==
    LET r == _updateRunLog(runlog, files, p, FALSE, -1, 0, "Stopped")
    IN  /\ proc[p].state = "zombie"
        /\ r.ok
        /\ runlog' = r.log
        /\ UNCHANGED <<sess, proc, files, hist>>

\* stopProcess.get, lines 5383-5399, for a pid tagged 'm' that no row of the
\* run log has: _updateRunLog raises MarxanServicesError at line 2775, which
\* is neither OSError nor PermissionError and leaves the inner try before
\* os.kill (line 5387) is reached; the request is answered with the error
StopMNoRow(p) ==
    LET r == _updateRunLog(runlog, files, p, FALSE, -1, 0, "Stopped")
        o == proc[p].owner
    IN  /\ ~r.ok
        /\ proc[p].state = "alive"
        /\ hist' = [hist EXCEPT ![o].stopCmd = TRUE]
        /\ UNCHANGED <<sess, proc, runlog, files>>

(* ------------------------------ clearRunLogs --------------------------- *)
\* clearRunLogs.get, lines 5442-5449: only rows with pid -1 are kept
ClearRunLogs ==
    /\ runlog # <<>>
    /\ runlog' = SelectSeq(_getRunLogs(runlog, files), LAMBDA r : r.pid = -1)
    /\ hist' = [s \in Sessions |->
                  IF RowIdx(runlog, s) # 0 /\ ~hist[s].reconciled
                  THEN [hist[s] EXCEPT !.cleared = TRUE] ELSE hist[s]]
    /\ UNCHANGED <<sess, proc, files>>

(* ------------------------------ streaming ------------------------------ *)
\* runMarxan.stream_marxan_output, lines 5913-5924: one chunk forwarded
StreamChunk(s) ==
    /\ sess[s].phase = "streaming"
    /\ proc[sess[s].pid].state = "alive"
    /\ sess' = [sess EXCEPT ![s] = send_response(sess[s], "RunningMarxan", "")]
    /\ UNCHANGED <<proc, runlog, files, hist>>

(* --------------- Windows: MarxanSubprocess polling thread --------------- *)
\* On Windows the exit callback runs on the thread started by
\* set_exit_callback_windows (lines 3247-3273), not on the IOLoop: its
\* read-modify-write of the run log interleaves with the handlers, and the
\* handlers' own steps interleave with it.

\* the IOLoop thread is inside runMarxan.open, between the spawn and logRun:
\* no other handler runs then, only the polling threads and the processes
MainBusy == \E s \in Sessions : sess[s].phase = "spawned"

\* runMarxan.open, lines 5862-5893 on Windows: check, delete, spawn, thread
WinOpenSpawn(s) ==
    /\ sess[s].phase = "opening"
    /\ LET a    == Preprocessing(sess[s])
           pair == sess[s].pair
       IN  /\ a.exc = "none"
           /\ IF AlreadyRunning(runlog, pair)
              THEN /\ sess' = [sess EXCEPT ![s] = [close(a, "AlreadyRunning") EXCEPT !.phase = "done"]]
                   /\ hist' = [hist EXCEPT ![s].refused = TRUE]
                   /\ UNCHANGED <<proc, files, thr>>
              ELSE \E p \in Pids :
                   /\ proc[p].state = "free"
                   /\ files' = [files EXCEPT ![pair] = {}]
                   /\ proc' = [proc EXCEPT ![p] = [state |-> "alive", owner |-> s, written |-> 0]]
                   /\ sess' = [sess EXCEPT ![s] =
                                 [a EXCEPT !.pid = p, !.numReq = _getNumberOfRunsRequired(pair),
                                           !.phase = "spawned"]]
                   /\ thr' = [thr EXCEPT ![s].pc = "polling"]
                   /\ hist' = [hist EXCEPT ![s].rival = LiveLoggedProcOf(pair)]
    /\ UNCHANGED runlog

\* runMarxan.open, lines 5899-5908: logRun and the 'pid' frame
WinOpenLog(s) ==
    /\ sess[s].phase = "spawned"
    /\ sess[s].pair[1] # ClumpUser => Len(runlog) < MaxRows + 1
    /\ runlog' = IF sess[s].pair[1] # ClumpUser
                 THEN logRun(runlog, s, sess[s].pid, sess[s].pair, sess[s].numReq)
                 ELSE runlog
    /\ sess' = [sess EXCEPT ![s] = [send_response([sess[s] EXCEPT !.pubId = JobId(sess[s].pid)], "pid", "")
                                      EXCEPT !.phase = "streaming"]]
    /\ hist' = [hist EXCEPT ![s].logged = (sess[s].pair[1] # ClumpUser)]
    /\ UNCHANGED <<proc, files, thr>>

\* _poll_completion sees the process ended and calls finishOutput, which (in
\* _updateRunLog, lines 2768-2772) reads the run log and looks the pid up
ThreadRead(s) ==
    /\ thr[s].pc = "polling"
    /\ Exited(proc, sess[s].pid)
    /\ sess[s].pair[1] # ClumpUser
    /\ sess[s].phase = "streaming"
    /\ FirstIdx(runlog, sess[s].pid) # 0
    /\ thr' = [thr EXCEPT ![s] = [pc |-> "read", df |-> runlog, fs |-> files]]
    /\ UNCHANGED <<sess, proc, runlog, files, hist>>

\* _updateRunLog, lines 2777-2791, on the dataframe read before, then the
\* close of finishOutput (lines 5979-5989).  The close runs off the IOLoop
\* thread: the Finished frame is written, or the write raises in the thread
ThreadWrite(s) ==
    /\ thr[s].pc = "read"
    /\ LET se   == sess[s]
           k    == _getNumberOfRunsCompleted(thr[s].fs, se.pair)
           want == IF k = se.numReq THEN "Completed" ELSE "Killed"
           r    == _updateRunLog(thr[s].df, thr[s].fs, se.pid, TRUE, k, se.numReq, want)
           msg  == IF want = "Completed" THEN "RunCompleted"
                   ELSE IF r.status = "Stopped" THEN "StoppedByUser"
                   ELSE "StoppedByOS"
       IN  /\ runlog' = r.log
           /\ \E written \in BOOLEAN :
                sess' = [sess EXCEPT ![s] =
                           IF written THEN [close(se, msg) EXCEPT !.phase = "done"]
                           ELSE [StopTimer(se) EXCEPT !.exc = "RuntimeError",
                                                      !.phase = "crashed"]]
           /\ hist' = [hist EXCEPT ![s].reconciled = TRUE,
                                   ![s].endStatus = StatusOf(runlog', s)]
    /\ proc' = [proc EXCEPT ![sess[s].pid] = NoProc]
    /\ thr' = [thr EXCEPT ![s] = [pc |-> "ended", df |-> <<>>, fs |-> <<>>]]
    /\ UNCHANGED files

\* stopProcess.get for an 'm' pid on Windows: the run log is updated (line
\* 5385); signal.SIGKILL does not exist there, so line 5387 raises
\* AttributeError before any signal is sent
WinStopM(p) ==
    LET r == _updateRunLog(runlog, files, p, FALSE, -1, 0, "Stopped")
    IN  /\ r.ok
        /\ runlog' = r.log
        /\ hist' = IF proc[p].state = "free" THEN hist
                   ELSE [hist EXCEPT ![proc[p].owner].stopCmd = TRUE]
        /\ UNCHANGED <<sess, proc, files, thr>>

\* _poll_completion sees the process ended while the IOLoop thread is still
\* in runMarxan.open before logRun (lines 5893-5903) and calls finishOutput
\* there and then: before line 5900 self.numRunsRequired does not exist and
\* line 5976 raises AttributeError in the thread; after it _updateRunLog finds
\* no row for the pid (2772-2776) and the session is closed with its error
\* (5993-5994). Either way the thread ends and no row is written.
ThreadEarly(s) ==
    /\ thr[s].pc = "polling"
    /\ Exited(proc, sess[s].pid)
    /\ sess[s].phase = "spawned"
    /\ IsLogged(sess[s].pair)
    /\ FirstIdx(runlog, sess[s].pid) = 0
    /\ \E raised \in BOOLEAN :
         sess' = [sess EXCEPT ![s] =
                    IF raised THEN sess[s]
                    ELSE [close(sess[s], "UnableToUpdateRunLog") EXCEPT !.phase = "spawned"]]
    /\ hist' = [hist EXCEPT ![s].reconciled = TRUE, ![s].endStatus = "absent"]
    /\ proc' = [proc EXCEPT ![sess[s].pid] = NoProc]
    /\ thr' = [thr EXCEPT ![s] = [pc |-> "ended", df |-> <<>>, fs |-> <<>>]]
    /\ UNCHANGED <<runlog, files>>

\* what the server does by itself under the polling thread: the rest of
\* runMarxan.open and the steps of the thread
PollStep ==
    \/ \E s \in Sessions : WinOpenLog(s) /\ UNCHANGED db
    \/ \E s \in Sessions : ThreadRead(s) /\ UNCHANGED db
    \/ \E s \in Sessions : ThreadWrite(s) /\ UNCHANGED db
    \/ \E s \in Sessions : ThreadEarly(s) /\ UNCHANGED db

NextPoll ==
    \/ \E s \in Sessions : ~MainBusy /\ Connect(s) /\ UNCHANGED <<thr, db>>
    \/ \E s \in Sessions : ~MainBusy /\ WinOpenSpawn(s) /\ UNCHANGED db
    \/ \E p \in Pids : ProcExit(p) /\ UNCHANGED <<thr, db>>
    \/ PollStep

\* the IOLoop thread and the polling threads keep running
SpecPoll == Init /\ [][NextPoll]_vars /\ WF_vars(PollStep)

InitWin ==
    /\ sess   = [s \in WinConns |-> NewSession]
    /\ proc   = [p \in Pids |-> NoProc]
    /\ runlog = <<>>
    /\ files  = [pr \in Pairs |-> {}]
    /\ hist   = [s \in WinConns |-> NoHist]
    /\ thr    = [s \in WinConns |-> NoThread]
    /\ db     = NoDb

Next ==
    \/ \E s \in Sessions : Connect(s) /\ UNCHANGED <<thr, db>>
    \/ \E s \in Sessions : OpenDenied(s) /\ UNCHANGED <<thr, db>>
    \/ \E s \in Sessions : OpenRun(s) /\ UNCHANGED <<thr, db>>
    \/ \E s \in Sessions : SpawnFails(s) /\ UNCHANGED <<thr, db>>
    \/ \E p \in Pids : ProcWrite(p) /\ UNCHANGED <<thr, db>>
    \/ \E p \in Pids : ProcExit(p) /\ UNCHANGED <<thr, db>>
    \/ \E s \in Sessions : FinishOutput(s) /\ UNCHANGED <<thr, db>>
    \/ \E p \in Pids : StopM(p) /\ UNCHANGED <<thr, db>>
    \/ \E p \in Pids : StopMGone(p) /\ UNCHANGED <<thr, db>>
    \/ ClearRunLogs /\ UNCHANGED <<thr, db>>
    \/ \E s \in Sessions : StreamChunk(s) /\ UNCHANGED <<thr, db>>

Spec == Init /\ [][Next]_vars

NextWin ==
    \/ \E s \in Sessions : ~MainBusy /\ Connect(s) /\ UNCHANGED <<thr, db>>
    \/ \E s \in Sessions : ~MainBusy /\ WinOpenSpawn(s) /\ UNCHANGED db
    \/ \E s \in Sessions : WinOpenLog(s) /\ UNCHANGED db
    \/ \E p \in Pids : ProcExit(p) /\ UNCHANGED <<thr, db>>
    \/ \E s \in Sessions : ThreadRead(s) /\ UNCHANGED db
    \/ \E s \in Sessions : ThreadWrite(s) /\ UNCHANGED db
    \/ \E p \in Pids : ~MainBusy /\ WinStopM(p) /\ UNCHANGED db

SpecWin == InitWin /\ [][NextWin]_vars

(* ------------- MarxanWebSocketHandler on its own: the channel ---------- *)
\* what the handler is left in after one of its methods ran: an exception
\* escaped, or close() was called
Settle(se) ==
    [se EXCEPT !.phase = IF se.exc # "none" THEN "crashed"
                         ELSE IF se.flag = "true" THEN "done" ELSE se.phase]

\* MarxanWebSocketHandler.open, lines 5743-5765, when the request is allowed
OpenDone(s) ==
    /\ sess[s].phase = "opening"
    /\ LET a == Preprocessing(sess[s])
       IN  sess' = [sess EXCEPT ![s] =
                      [a EXCEPT !.phase = IF a.exc = "none" THEN "active" ELSE "crashed"]]
    /\ UNCHANGED <<proc, runlog, files, hist, thr, db>>

\* the PeriodicCallback of line 5762 fires (every PING_INTERVAL while running)
Tick(s) ==
    /\ sess[s].timer = "running"
    /\ sess[s].nTick < MaxTicks
    /\ sess' = [sess EXCEPT ![s] = Settle(sendPing([sess[s] EXCEPT !.nTick = @ + 1]))]
    /\ UNCHANGED <<proc, runlog, files, hist, thr, db>>

\* the client closes the connection: write_message raises from then on
PeerClose(s) ==
    /\ sess[s].phase \in {"opening", "active"}
    /\ sess[s].chan = "open"
    /\ sess' = [sess EXCEPT ![s].chan = "peerClosed"]
    /\ UNCHANGED <<proc, runlog, files, hist, thr, db>>

\* a handler sets or deletes self.ping_message, lines 7111-7119
TogglePing(s) ==
    /\ sess[s].phase = "active"
    /\ sess' = [sess EXCEPT ![s].pingText = ~@]
    /\ UNCHANGED <<proc, runlog, files, hist, thr, db>>

\* a handler sends a progress frame, lines 5773-5797
SendData(s) ==
    /\ sess[s].phase = "active"
    /\ sess' = [sess EXCEPT ![s] = Settle(send_response(sess[s], "Data", ""))]
    /\ UNCHANGED <<proc, runlog, files, hist, thr, db>>

\* close(closeMessage), lines 5799-5827, called by a handler at any time
\* after the connection was accepted, any number of times
CloseClean(s) ==
    /\ sess[s].phase \in {"opening", "active", "done"}
    /\ sess' = [sess EXCEPT ![s] = Settle(close(sess[s], "Done"))]
    /\ UNCHANGED <<proc, runlog, files, hist, thr, db>>

\* close(clean=False), called at any time after the connection was accepted
CloseNotClean(s) ==
    /\ sess[s].phase \in {"opening", "active", "done"}
    /\ sess' = [sess EXCEPT ![s] = Settle(CloseUnclean(sess[s]))]
    /\ UNCHANGED <<proc, runlog, files, hist, thr, db>>

\* code that runs after the handler's close() sends another frame: the read
\* loop of stream_marxan_output (lines 5918-5922) that still holds a chunk, a
\* handler that goes on after executeQuery closed the session (line 6575)
LateSend(s) ==
    /\ sess[s].phase = "done"
    /\ sess' = [sess EXCEPT ![s] =
                  Settle(send_response([sess[s] EXCEPT !.sentAfter = TRUE], "Data", ""))]
    /\ UNCHANGED <<proc, runlog, files, hist, thr, db>>

NextSession ==
    \/ \E s \in Sessions : Connect(s) /\ UNCHANGED <<thr, db>>
    \/ \E s \in Sessions : OpenDenied(s) /\ UNCHANGED <<thr, db>>
    \/ \E s \in Sessions : OpenDone(s)
    \/ \E s \in Sessions : Tick(s)
    \/ \E s \in Sessions : PeerClose(s)
    \/ \E s \in Sessions : TogglePing(s)
    \/ \E s \in Sessions : SendData(s)
    \/ \E s \in Sessions : CloseClean(s)
    \/ \E s \in Sessions : CloseNotClean(s)
    \/ \E s \in Sessions : LateSend(s)

SpecSession == Init /\ [][NextSession]_vars

(* ------ QueryWebSocketHandler.executeQuery, PostGIS.execute, stop 'q' --- *)
\* a query handler is opened; handlers such as createPlanningUnitGrid take no
\* 'user' argument, and then _setFolderPaths (line 693) never sets self.user
QConnect(s) ==
    /\ sess[s].phase = "idle"
    /\ \A t \in Sessions : t < s => sess[t].phase # "idle"
    /\ \E u \in BOOLEAN :
         sess' = [sess EXCEPT ![s] =
                    [send_response([NewSession EXCEPT !.hasUser = u], "Started", "")
                       EXCEPT !.phase = "opening"]]
    /\ UNCHANGED <<proc, runlog, files, hist, thr, db>>

\* conn = await self.pool.acquire(), line 3020: connection b is handed to
\* who (a session, or StopCaller for the handler of a stop request)
StopCaller == -1
PoolAcquire(d, b, who) == [d EXCEPT !.busy[b] = who]

\* an execute that never gives its connection back
PoolReleaseNot(d, b) == d

\* the finally clause of PostGIS.execute, line 3071
PoolRelease(d, b) == [busy |-> [d.busy EXCEPT ![b] = 0], cancel |-> d.cancel \ {b}]

\* an execute that keeps the backend pid to itself
PublishPidNot(se, b) == [se EXCEPT !.pid = b]

\* PostGIS.execute, lines 3036-3040: the backend pid, tagged 'q', is set on
\* the handler and sent in a 'pid' frame
PublishPid(se, b) ==
    send_response([se EXCEPT !.pid = b, !.pubId = QueryId(b)], "pid", "")

\* await cur.execute(sql), line 3042: the statement starts on the backend;
\* known records the identifier the client had been sent by then
CurExecute(se) == [se EXCEPT !.phase = "querying", !.known = se.pubId]

\* PostGIS.execute, lines 3018-3042: a connection is acquired, the backend
\* pid is published on the handler and sent, the query starts
PgExecuteStart(s) ==
    /\ sess[s].phase = "active"
    /\ \E b \in Backends :
         /\ db.busy[b] = 0
         /\ db' = PoolAcquire(db, b, s)
         /\ sess' = [sess EXCEPT ![s] = CurExecute(PublishPid(sess[s], b))]
    /\ UNCHANGED <<proc, runlog, files, hist, thr>>

\* database errors of a statement other than cancellation and operational
\* errors; ProgrammingError stands for every class the code does not name
DbErrors == {"UniqueViolation", "InternalError", "ProgrammingError"}

\* PostGIS.execute, lines 3041-3046: what leaves the await of cur.execute for
\* a database error of class kind whose message is "original"
ExecuteRaises(kind) ==
    IF kind = "UniqueViolation"
    THEN [type |-> "MarxanServicesError", text |-> "That item already exists"]
    ELSE IF kind = "InternalError"
    THEN [type |-> "MarxanServicesError", text |-> "Query stopped: original"]
    ELSE [type |-> kind, text |-> "original"]

\* QueryWebSocketHandler.executeQuery, lines 6569-6575, by the way the await
\* of pg.execute ends: "ok", "OperationalError", "CancelledError", or
\* "MarxanServicesError" / another psycopg2 error / "UnboundLocalError" (not
\* caught here)
executeQuery(se, outcome) ==
    IF outcome = "ok" THEN se
    ELSE IF outcome = "OperationalError" THEN close(se, "StoppedByOS")
    ELSE IF outcome \in {"MarxanServicesError", "UnboundLocalError"} \cup DbErrors
    THEN [se EXCEPT !.exc = outcome]
    ELSE IF se.hasUser THEN close(se, "StoppedByUser")
    ELSE [se EXCEPT !.exc = "AttributeError"]

\* the query returns its rows and the handler closes with its result
QueryDone(s) ==
    /\ sess[s].phase = "querying"
    /\ sess[s].pid \notin db.cancel
    /\ db' = PoolRelease(db, sess[s].pid)
    /\ sess' = [sess EXCEPT ![s] = Settle(close(executeQuery(sess[s], "ok"), "QueryDone"))]
    /\ UNCHANGED <<proc, runlog, files, hist, thr>>

\* the backend or its connection fails: psycopg2.OperationalError
QueryFailed(s) ==
    /\ sess[s].phase = "querying"
    /\ sess[s].pid \notin db.cancel
    /\ db' = PoolRelease(db, sess[s].pid)
    /\ sess' = [sess EXCEPT ![s] = Settle(executeQuery(sess[s], "OperationalError"))]
    /\ UNCHANGED <<proc, runlog, files, hist, thr>>

\* the backend was cancelled: the await of cur.execute (line 3042) ends with
\* asyncio.CancelledError
QueryCancelled(s) ==
    /\ sess[s].phase = "querying"
    /\ sess[s].pid \in db.cancel
    /\ db' = PoolRelease(db, sess[s].pid)
    /\ sess' = [sess EXCEPT ![s] = Settle(executeQuery(sess[s], "CancelledError"))]
    /\ UNCHANGED <<proc, runlog, files, hist, thr>>

\* the statement fails in the database: execute raises what ExecuteRaises
\* says. A MarxanServicesError is turned into an error close by a handler such
\* as preprocessFeature (line 6626) and escapes from open() in a handler such
\* as createPlanningUnitGrid; any other exception escapes from both.
QueryRaised(s) ==
    /\ sess[s].phase = "querying"
    /\ sess[s].pid \notin db.cancel
    /\ db' = PoolRelease(db, sess[s].pid)
    /\ \E kind \in DbErrors, caught \in BOOLEAN :
         LET e == ExecuteRaises(kind)
             a == [executeQuery(sess[s], e.type) EXCEPT !.dbError = kind, !.excText = e.text]
         IN  /\ caught => e.type = "MarxanServicesError"
             /\ sess' = [sess EXCEPT ![s] =
                           Settle(IF caught THEN close([a EXCEPT !.exc = "none"], "QueryError")
                                  ELSE a)]
    /\ UNCHANGED <<proc, runlog, files, hist, thr>>

\* stopProcess.get, lines 5388-5390, for a pid tagged 'q': pg.execute takes
\* another connection of the pool, runs pg_cancel_backend on it, which cancels
\* what backend b executes, and gives the connection back
StopQ(b) ==
    /\ \E c \in Backends :
         /\ db.busy[c] = 0
         /\ LET d1 == PoolAcquire(db, c, StopCaller)
                d2 == IF db.busy[b] > 0 THEN [d1 EXCEPT !.cancel = @ \cup {b}] ELSE d1
            IN  db' = PoolRelease(d2, c)
    /\ hist' = IF db.busy[b] > 0 THEN [hist EXCEPT ![db.busy[b]].stopCmd = TRUE] ELSE hist
    /\ UNCHANGED <<sess, proc, runlog, files, thr>>

NextQuery ==
    \/ \E s \in Sessions : QConnect(s)
    \/ \E s \in Sessions : OpenDone(s)
    \/ \E s \in Sessions : PgExecuteStart(s)
    \/ \E s \in Sessions : QueryDone(s)
    \/ \E s \in Sessions : QueryFailed(s)
    \/ \E s \in Sessions : QueryCancelled(s)
    \/ \E s \in Sessions : QueryRaised(s)
    \/ \E b \in Backends : StopQ(b)

SpecQuery == Init /\ [][NextQuery]_vars

(* --------------------- pool.acquire() raises --------------------------- *)
\* what pool.acquire() can raise: the three cases the except clauses of
\* lines 3021-3029 tell apart (an OperationalError is "ShutdownError" when its
\* text has 'terminating connection due to administrator command')
AcquireErrors == {"IntegrityError", "ShutdownError", "OperationalError", "OtherError"}

\* lines 3021-3029: the exception the except clause raises in place of the
\* one caught ("none": the clause for OperationalError raises nothing when
\* the text is another one)
AcquireRaises(kind) ==
    IF kind = "OperationalError" THEN "none" ELSE "MarxanServicesError"

\* the finally clause, lines 3070-3071: 'conn' is only bound when acquire
\* returned; otherwise evaluating it raises UnboundLocalError, which replaces
\* the exception on its way out, and release is not called
ExecuteFinally(pending, bound) == IF bound THEN pending ELSE "UnboundLocalError"

\* executeQuery, lines 6569-6575, when pool.acquire() raises in pg.execute:
\* no connection was taken and none is given back
AcquireFails(s) ==
    /\ sess[s].phase = "active"
    /\ \E kind \in AcquireErrors :
         LET e == ExecuteFinally(AcquireRaises(kind), FALSE)
         IN  sess' = [sess EXCEPT ![s] =
                        Settle([executeQuery(sess[s], e) EXCEPT !.dbError = kind])]
    /\ UNCHANGED <<proc, runlog, files, hist, thr, db>>

NextAcquire ==
    \/ NextQuery
    \/ \E s \in Sessions : AcquireFails(s)

SpecAcquire == Init /\ [][NextAcquire]_vars

(* ---------------- the pool shared with every other request ------------ *)
\* who holds a connection taken by pg.execute for a request that has no
\* socket handler (every REST handler and helper that queries the database,
\* for example line 6769)
OtherRequest == -2

\* conn = await self.pool.acquire(), line 3020, for such a request
OtherAcquire(b) ==
    /\ db.busy[b] = 0
    /\ db' = PoolAcquire(db, b, OtherRequest)
    /\ UNCHANGED <<sess, proc, runlog, files, hist, thr>>

\* its statement ends and the finally clause gives the connection back,
\* line 3071
OtherRelease(b) ==
    /\ db.busy[b] = OtherRequest
    /\ db' = PoolRelease(db, b)
    /\ UNCHANGED <<sess, proc, runlog, files, hist, thr>>

NextPool ==
    \/ NextQuery
    \/ \E b \in Backends : OtherAcquire(b)
    \/ \E b \in Backends : OtherRelease(b)

SpecPool == Init /\ [][NextPool]_vars

(* ------- the handler after executeQuery has closed its session --------- *)
\* executeQuery returns None after its close (lines 6572-6575) and the
\* handler goes on with the statement after the await. In
\* preprocessPlanningUnits.open that is: remove bounds.dat and run the next
\* statement with pg.execute, which takes a pooled connection (lines
\* 6771-6774)
GoOnQuery(s) ==
    /\ sess[s].phase = "done"
    /\ sess[s].finalMsg \in {"StoppedByUser", "StoppedByOS"}
    /\ sess[s].nClose = 1
    /\ \E b \in Backends :
         /\ db.busy[b] = 0
         /\ db' = PoolAcquire(db, b, s)
         /\ sess' = [sess EXCEPT ![s] = [@ EXCEPT !.phase = "goingOn", !.pid = b]]
    /\ UNCHANGED <<proc, runlog, files, hist, thr>>

\* preprocessPlanningUnits.open, lines 6774-6780: the statement returns, its
\* rows are written to bounds.dat, input.dat is updated and close is called
\* with the result of the operation
GoOnFinish(s) ==
    /\ sess[s].phase = "goingOn"
    /\ db' = PoolRelease(db, sess[s].pid)
    /\ sess' = [sess EXCEPT ![s] =
                  [close([@ EXCEPT !.wroteFile = TRUE, !.sentAfter = TRUE], "QueryDone")
                     EXCEPT !.phase = "done"]]
    /\ UNCHANGED <<proc, runlog, files, hist, thr>>

NextGoOn ==
    \/ NextQuery
    \/ \E s \in Sessions : GoOnQuery(s)
    \/ \E s \in Sessions : GoOnFinish(s)

SpecGoOn == Init /\ [][NextGoOn]_vars

(* --------------------- the server stops and starts again --------------- *)
\* the run log file as initialiseApp, lines 7255-7330, leaves it: start-up
\* sets the globals, the logging and the listener and does not open the file
initialiseApp(log) == log

\* the server process ends (crash, kill, shutdown) while sessions are open and
\* is started again: the handlers and their solver processes are gone, the
\* run log file and the output folders are what they were. hist[s].orphaned
\* marks the jobs whose row was Running at that moment.
Restart ==
    /\ \E s \in Sessions : sess[s].phase \notin {"idle", "lost"}
    /\ \A s \in Sessions : sess[s].phase # "lost"
    /\ sess' = [s \in Sessions |->
                  IF sess[s].phase = "idle" THEN sess[s]
                  ELSE [sess[s] EXCEPT !.phase = "lost", !.chan = "closed",
                                       !.timer = IF @ = "running" THEN "stopped" ELSE @]]
    /\ proc' = [p \in Pids |-> NoProc]
    /\ runlog' = initialiseApp(runlog)
    /\ hist' = [s \in Sessions |->
                  [hist[s] EXCEPT !.orphaned = (StatusOf(runlog, s) = "Running")]]
    /\ UNCHANGED <<files, thr, db>>

\* what the server does by itself, as opposed to what clients ask for
ServerStep ==
    \/ \E s \in Sessions : OpenRun(s) /\ UNCHANGED <<thr, db>>
    \/ \E s \in Sessions : FinishOutput(s) /\ UNCHANGED <<thr, db>>

NextRestart ==
    \/ \E s \in Sessions : Connect(s) /\ UNCHANGED <<thr, db>>
    \/ \E p \in Pids : ProcExit(p) /\ UNCHANGED <<thr, db>>
    \/ ClearRunLogs /\ UNCHANGED <<thr, db>>
    \/ Restart
    \/ ServerStep

\* every handler that can run does run: the IOLoop serves its callbacks
SpecRestart == Init /\ [][NextRestart]_vars /\ WF_vars(ServerStep)

(* ------------- stopProcess with jobs and queries side by side ---------- *)
\* the identifiers a client can send: a tag and a number
Ids == ({"m"} \X Pids) \cup ({"q"} \X Backends)

\* a test that takes every identifier for a job
IsMarxanRunNot(id) == TRUE

\* self.get_argument('pid')[:1] == 'm', line 5383
IsMarxanRun(id) == id[1] = "m"

\* stopProcess.get, lines 5375-5399: pid is the identifier without its first
\* character; the first character selects the branch
stopProcess(id) ==
    LET pid == id[2]
    IN  IF IsMarxanRun(id)
        THEN /\ pid \in Pids
             /\ StopM(pid) \/ StopMGone(pid) \/ StopMNoRow(pid)
             /\ UNCHANGED <<thr, db>>
        ELSE /\ pid \in Backends
             /\ StopQ(pid)

NextStop ==
    \/ \E s \in Sessions : Connect(s) /\ UNCHANGED <<thr, db>>
    \/ \E s \in Sessions : OpenRun(s) /\ UNCHANGED <<thr, db>>
    \/ \E p \in Pids : ProcExit(p) /\ UNCHANGED <<thr, db>>
    \/ \E s \in Sessions : FinishOutput(s) /\ UNCHANGED <<thr, db>>
    \/ \E s \in Sessions : QConnect(s)
    \/ \E s \in Sessions : OpenDone(s)
    \/ \E s \in Sessions : PgExecuteStart(s)
    \/ \E s \in Sessions : QueryDone(s)
    \/ \E s \in Sessions : QueryCancelled(s)
    \/ \E id \in Ids : stopProcess(id)

SpecStop == Init /\ [][NextStop]_vars

(* ------------------ stopping jobs that have no ledger row -------------- *)
NextStopJob ==
    \/ \E s \in Sessions : Connect(s) /\ UNCHANGED <<thr, db>>
    \/ \E s \in Sessions : OpenRun(s) /\ UNCHANGED <<thr, db>>
    \/ \E p \in Pids : ProcExit(p) /\ UNCHANGED <<thr, db>>
    \/ \E s \in Sessions : FinishOutput(s) /\ UNCHANGED <<thr, db>>
    \/ ClearRunLogs /\ UNCHANGED <<thr, db>>
    \/ \E p \in Pids : stopProcess(JobId(p))

SpecStopJob == Init /\ [][NextStopJob]_vars

(* ============================ properties =============================== *)
Terminal == {"Completed", "Stopped", "Killed"}

RunningRows(log, user, project) ==
    {i \in 1..Len(log) : log[i].status = "Running" /\ log[i].user = user
                         /\ log[i].project = project}

\* C1: the run log never holds two Running rows for the same (user, project)
C1_AtMostOneRunning ==
    \A i, j \in 1..Len(runlog) :
        (i # j /\ runlog[i].status = "Running" /\ runlog[j].status = "Running")
            => ~(runlog[i].user = runlog[j].user /\ runlog[i].project = runlog[j].project)

\* C2: no two solver processes of the same (user, project) are alive at once
C2_OneLiveProcessPerProject ==
    \A p, q \in Pids :
        (p # q /\ proc[p].state = "alive" /\ proc[q].state = "alive"
              /\ sess[proc[p].owner].pair[1] # ClumpUser)
            => sess[proc[p].owner].pair # sess[proc[q].owner].pair

\* C3: while a job of the pair is alive with its Running row in the log, a
\* second start of the pair spawns nothing and ends with the already-running
\* error, and the log holds exactly one Running row for the pair
C3_LoserRefusedBeforeSpawn ==
    /\ \A s \in Sessions : ~hist[s].rival
    /\ \A s \in Sessions :
          hist[s].refused => /\ sess[s].pid = 0
                             /\ sess[s].finalMsg = "AlreadyRunning"
                             /\ RowIdx(runlog, s) = 0
    /\ \A p \in Pids :
          (proc[p].state = "alive" /\ StatusOf(runlog, proc[p].owner) = "Running")
            => Cardinality(RunningRows(runlog, sess[proc[p].owner].pair[1],
                                       sess[proc[p].owner].pair[2])) = 1

\* two sessions were opening the same pair at once; one runs, the other was
\* refused
C3_Witness ==
    \E s, t \in Sessions :
        /\ s # t /\ sess[s].pair = sess[t].pair /\ hist[s].contended
        /\ hist[t].refused /\ sess[t].nFinished = 1
        /\ sess[s].phase = "streaming" /\ proc[sess[s].pid].state = "alive"
        /\ StatusOf(runlog, s) = "Running"

\* C4: a row that has a terminal status keeps it for as long as it is in the log
C4_TerminalStatusIsFinal ==
    [][\A s \in Sessions :
          (StatusOf(runlog, s) \in Terminal /\ StatusOf(runlog', s) # "absent")
            => StatusOf(runlog', s) = StatusOf(runlog, s)]_vars

\* C5: a job stopped by stop('m'+pid) after k < N artefacts ends Stopped with
\* runs k/N and its session closes with 'stopped by <user>'
C5_StoppedJobEndsStopped ==
    \A s \in Sessions :
        (hist[s].reconciled /\ hist[s].logged /\ ~hist[s].cleared /\ hist[s].stopped
              /\ hist[s].stopK < sess[s].numReq)
            => /\ hist[s].endStatus = "Stopped"
               /\ hist[s].endDone = hist[s].stopK
               /\ hist[s].endReq = sess[s].numReq
               /\ sess[s].finalMsg = "StoppedByUser"

\* C6: a job that wrote its N artefacts and exited normally ends Completed
\* with runs N/N and its session closes with 'Run completed'
C6_CompletedJobEndsCompleted ==
    \A s \in Sessions :
        (hist[s].reconciled /\ hist[s].logged /\ ~hist[s].cleared /\ ~hist[s].stopCmd
              /\ hist[s].exitKind = "normal")
            => /\ hist[s].endStatus = "Completed"
               /\ hist[s].endDone = sess[s].numReq
               /\ hist[s].endReq = sess[s].numReq
               /\ sess[s].finalMsg = "RunCompleted"

\* C7: a job whose process died without any stop command ends Killed and its
\* session closes with 'stopped by operating system'
C7_DeadJobEndsKilled ==
    \A s \in Sessions :
        (hist[s].reconciled /\ hist[s].logged /\ ~hist[s].cleared
              /\ hist[s].exitKind = "died" /\ ~hist[s].stopCmd)
            => /\ hist[s].endStatus = "Killed"
               /\ sess[s].finalMsg = "StoppedByOS"

\* C8: whatever close calls are made on a session, clean or not, in any
\* order, at most one Finished frame is written to its channel
C8_FinishedAtMostOnce == \A s \in Sessions : sess[s].nFinished <= 1

\* close was called at least twice on a session that wrote its Finished frame
C8_Witness == \E s \in Sessions : sess[s].nClose = 2 /\ sess[s].nFinished = 1

C10_CancelledQueryStoppedByUser ==
    \A s \in Sessions :
        (hist[s].stopCmd /\ sess[s].phase \in {"done", "crashed"})
            => sess[s].finalMsg = "StoppedByUser"

\* C11: a pooled connection is out of the pool only while the execute that
\* acquired it is running; once every execute has finished, no connection is
\* outstanding
C11_ConnectionsReleased ==
    /\ \A b \in Backends :
          db.busy[b] # 0 => /\ db.busy[b] \in Sessions
                            /\ sess[db.busy[b]].phase = "querying"
                            /\ sess[db.busy[b]].pid = b
    /\ db.cancel \subseteq {b \in Backends : db.busy[b] # 0}

\* executes ended in each of the ways (rows returned, cancelled, escaped
\* exception) and the pool is back at its baseline
C11_Witness ==
    /\ \A b \in Backends : db.busy[b] = 0
    /\ \E s, t \in Sessions :
          /\ hist[s].stopCmd /\ sess[s].phase \in {"done", "crashed"}
          /\ sess[t].exc = "MarxanServicesError"

\* C12: a session whose operation has ended, by completion, cancellation or
\* failure, has written exactly one Finished frame
C12_EndedSessionFinishedOnce ==
    \A s \in Sessions :
        sess[s].phase \in {"done", "crashed"} => sess[s].nFinished = 1

\* C13: an exception that escapes a session's operation is turned into an
\* error frame and the session is closed
C13_EscapedExceptionReported ==
    \A s \in Sessions :
        sess[s].exc # "none" => /\ sess[s].flag = "true"
                                /\ sess[s].finalMsg \notin {"none", "QueryDone"}

C15_RefusedStartChangesNothing ==
    [][\A s \in Sessions :
          (~hist[s].refused /\ hist'[s].refused)
            => /\ proc' = proc /\ runlog' = runlog /\ files' = files
               /\ sess'[s].finalMsg = "AlreadyRunning" /\ sess'[s].nFinished = 1
               /\ sess'[s].pid = 0
               /\ \A t \in Sessions \ {s} : sess'[t] = sess[t]]_vars

\* a start was refused while the running job of the pair had written an
\* artefact that its ledger row does not count yet
C15_Witness ==
    \E s, t \in Sessions :
        /\ hist[s].refused /\ sess[t].pair = sess[s].pair
        /\ sess[t].phase = "streaming" /\ StatusOf(runlog, t) = "Running"
        /\ files[sess[t].pair] # {}
        /\ runlog[RowIdx(runlog, t)].done = 0

\* the status column of the run log
Statuses(log) == [i \in 1..Len(log) |-> log[i].status]

\* C16: a stop('m'+pid) that fails because the process is gone leaves the
\* status of every ledger row as it was
C16_FailedStopKeepsStatus ==
    [][\A p \in Pids : StopMGone(p) => Statuses(runlog') = Statuses(runlog)]_vars

\* C17: a session whose solver could not be spawned is closed with an error
\* frame and has no ledger row
C17_SpawnFailureClosesWithError ==
    \A s \in Sessions :
        hist[s].spawnFailed => /\ sess[s].nFinished = 1
                               /\ sess[s].finalMsg # "none"
                               /\ sess[s].chan = "closed"
                               /\ sess[s].timer # "running"
                               /\ RowIdx(runlog, s) = 0

\* C18: when the row of a logged job is no longer in the ledger at the time
\* its process exit is reconciled, the update raises the 'unable to update
\* run log' error and the session is closed with one Finished frame that
\* carries that error
C18_MissingRowReported ==
    \A s \in Sessions :
        (hist[s].logged /\ hist[s].reconciled /\ hist[s].endStatus = "absent")
            => /\ sess[s].finalMsg = "UnableToUpdateRunLog"
               /\ sess[s].nFinished = 1 /\ sess[s].phase = "done"
               /\ sess[s].chan = "closed" /\ sess[s].timer = "stopped"

\* the ledger was cleared under a running job, a later job was logged, and
\* then the first job's exit was reconciled
C18_Witness ==
    \E s \in Sessions :
        /\ hist[s].logged /\ hist[s].reconciled /\ hist[s].endStatus = "absent"
        /\ hist[s].cleared /\ sess[s].finalMsg = "UnableToUpdateRunLog"
        /\ runlog # <<>>

\* C19: no two rows of the ledger have the same pid
C19_UniquePidRows ==
    \A i, j \in 1..Len(runlog) : i # j => runlog[i].pid # runlog[j].pid

\* C20: a stop with an 'm' identifier changes nothing in the database pool
\* and cancels no query; a stop with a 'q' identifier changes no ledger row
\* and no process; the identifier published by a job session is 'm' + its pid
\* and the one published by a query session is 'q' + its backend pid
C20_StopRoutedByPrefix ==
    /\ [](\A s \in Sessions :
             /\ sess[s].phase = "streaming" => sess[s].pubId = <<"m", sess[s].pid>>
             /\ sess[s].phase = "querying" => sess[s].pubId = <<"q", sess[s].pid>>
             /\ sess[s].pubId[1] = "m" => sess[s].numReq > 0
             /\ sess[s].pubId[1] = "q" => sess[s].numReq = 0)
    /\ [][\A id \in Ids :
             stopProcess(id) =>
                 /\ id[1] = "m" => db' = db
                 /\ id[1] = "q" => (runlog' = runlog /\ proc' = proc /\ files' = files)]_vars

\* a query has been cancelled on the backend whose number is also the pid of
\* a job that is still alive with its Running row
C20_Witness ==
    \E s, t \in Sessions :
        /\ sess[s].phase = "streaming" /\ proc[sess[s].pid].state = "alive"
        /\ StatusOf(runlog, s) = "Running"
        /\ sess[t].pubId = <<"q", sess[s].pid>> /\ hist[t].stopCmd
        /\ sess[t].finalMsg = "StoppedByUser"

\* C21: no ledger row ever belongs to the clumping user, a start for that
\* user is never refused, and every step taken by one of its sessions (start,
\* streaming, exit reconciliation) leaves the ledger as it was
C21_ClumpingLeavesLedgerAlone ==
    /\ [](\A i \in 1..Len(runlog) : runlog[i].user # ClumpUser)
    /\ [](\A s \in Sessions :
             sess[s].pair[1] = ClumpUser => ~hist[s].refused /\ ~hist[s].logged)
    /\ [][\A s \in Sessions :
             (sess'[s].pair[1] = ClumpUser /\ sess'[s] # sess[s]) => runlog' = runlog]_vars

\* two clumping jobs of the same project run at the same time
C21_Witness ==
    \E s, t \in Sessions :
        /\ s # t /\ sess[s].pair[1] = ClumpUser /\ sess[t].pair = sess[s].pair
        /\ sess[s].phase = "streaming" /\ sess[t].phase = "streaming"
        /\ proc[sess[s].pid].state = "alive" /\ proc[sess[t].pid].state = "alive"

\* C22: a row that was Running when the server stopped does not stay Running
\* once the server is up again
C22_RunningRowResolvedAfterRestart ==
    \A s \in Conns : hist[s].orphaned ~> (StatusOf(runlog, s) # "Running")

\* C23: whenever a statement of a query session is executing on a backend,
\* the client had already been sent the 'pid' frame with 'q' + that backend's
\* pid when the statement started
C23_PidPublishedBeforeStatement ==
    \A b \in Backends :
        db.busy[b] \in Sessions =>
            /\ sess[db.busy[b]].phase = "querying"
            /\ sess[db.busy[b]].known = <<"q", b>>

\* a statement is executing and a stop for the identifier its session was
\* sent has reached the backend
C23_Witness ==
    \E s \in Sessions :
        /\ sess[s].phase = "querying" /\ sess[s].known = <<"q", sess[s].pid>>
        /\ sess[s].pid \in db.cancel /\ hist[s].stopCmd

\* C24: in the step that sends the 'm' pid frame of a job, the running check
\* had found no Running row of the pair, the output folder has been emptied,
\* the process is alive and has written nothing, and, unless the job is a
\* clumping one, the ledger holds the Running row with that pid; output is
\* streamed only by sessions that sent their pid frame
C24_StartStepsInOrder ==
    /\ [](\A s \in Sessions : sess[s].phase = "streaming" => sess[s].pubId[1] = "m")
    /\ [][\A s \in Sessions :
             (sess[s].pubId[1] # "m" /\ sess'[s].pubId[1] = "m")
               => /\ ~_isProjectRunning(runlog, sess[s].pair)
                  /\ files'[sess[s].pair] = {}
                  /\ sess'[s].pubId = <<"m", sess'[s].pid>>
                  /\ proc'[sess'[s].pid] = [state |-> "alive", owner |-> s, written |-> 0]
                  /\ IsLogged(sess[s].pair) =>
                       /\ RowIdx(runlog', s) = Len(runlog') /\ Len(runlog') = Len(runlog) + 1
                       /\ runlog'[Len(runlog')].pid = sess'[s].pid
                       /\ runlog'[Len(runlog')].status = "Running"
                       /\ runlog'[Len(runlog')].done = 0]_vars

\* a job is streaming with its row in the ledger, started after an earlier job
\* of the same project had left artefacts in the output folder
C24_Witness ==
    \E s, t \in Sessions :
        /\ sess[s].phase = "streaming" /\ IsLogged(sess[s].pair)
        /\ StatusOf(runlog, s) = "Running" /\ runlog[RowIdx(runlog, s)].pid = sess[s].pid
        /\ sess[t].pair = sess[s].pair /\ hist[t].reconciled /\ hist[t].endDone > 0
        /\ files[sess[s].pair] = {}

\* C25: the exit of a job is reconciled only after its process has
\* terminated, the reconciliation closes the session once and is not run
\* again, and a spawned process is given up only by its reconciliation
C25_ReconciledOncePerProcess ==
    /\ [](\A s \in Sessions :
             /\ hist[s].reconciled =>
                  /\ hist[s].exitKind # "none"
                  /\ sess[s].nClose = 1 /\ sess[s].phase = "done"
             /\ (sess[s].pubId[1] = "m" /\ ~hist[s].reconciled) =>
                  /\ proc[sess[s].pid].owner = s
                  /\ proc[sess[s].pid].state \in {"alive", "zombie"})
    /\ [][\A s \in Sessions :
             hist[s].reconciled => (hist'[s].reconciled /\ sess'[s] = sess[s]
                                    /\ hist'[s].endStatus = hist[s].endStatus)]_vars

\* two jobs were given the same pid one after the other and each was
\* reconciled after its own exit
C25_Witness ==
    \E s, t \in Sessions :
        /\ s # t /\ hist[s].reconciled /\ hist[t].reconciled
        /\ sess[s].pid = sess[t].pid
        /\ hist[s].exitKind = "normal" /\ hist[t].exitKind = "stop"

\* C26: under the polling-thread backend the step that reconciles an exit
\* leaves the ledger and the session as the exit callback of the native
\* backend would from the same state: the update is made on the ledger as it
\* is at that moment and a session that is closed gets the message that follows
C26_PolledExitAsNative ==
    [][\A s \in Sessions :
          (~hist[s].reconciled /\ hist'[s].reconciled /\ IsLogged(sess[s].pair))
            => LET se   == sess[s]
                   k    == _getNumberOfRunsCompleted(files, se.pair)
                   want == IF k = se.numReq THEN "Completed" ELSE "Killed"
                   r    == _updateRunLog(runlog, files, se.pid, TRUE, k, se.numReq, want)
                   msg  == IF ~r.ok THEN "UnableToUpdateRunLog"
                           ELSE IF want = "Completed" THEN "RunCompleted"
                           ELSE IF r.status = "Stopped" THEN "StoppedByUser"
                           ELSE "StoppedByOS"
               IN  /\ runlog' = r.log
                   /\ sess'[s].phase = "done" => sess'[s].finalMsg = msg]_vars

\* C27: what a read of the ledger returns has, in every Running row, the
\* number of artefacts now in that row's output folder with the required
\* count as stored, and every row with a terminal status as stored
C27_ReadRefreshesRunningRows ==
    LET df == _getRunLogs(runlog, files)
    IN  /\ Len(df) = Len(runlog)
        /\ \A i \in 1..Len(runlog) :
              IF runlog[i].status = "Running"
              THEN df[i] = [runlog[i] EXCEPT !.done =
                               _getNumberOfRunsCompleted(files, <<runlog[i].user, runlog[i].project>>)]
              ELSE df[i] = runlog[i]

\* C28: a send on a channel the peer has closed (the Preprocessing frame of
\* open, a keep-alive, a progress frame) raises nothing and writes no frame,
\* and the abnormal termination is logged at most once per session
C28_SendOnClosedChannelIsNoOp ==
    [][\A s \in Sessions :
          (sess[s].chan = "peerClosed" /\ (OpenDone(s) \/ Tick(s) \/ SendData(s)))
            => /\ sess'[s].exc = "none"
               /\ sess'[s].warned <= 1
               /\ sess'[s].nPre = sess[s].nPre /\ sess'[s].nPing = sess[s].nPing
               /\ sess'[s].nFinished = sess[s].nFinished]_vars

\* C29: a query session that was not cancelled and whose statement failed
\* with a database error other than an operational one got, from execute, a
\* MarxanServicesError whose text is the message of the database error
C29_OtherErrorsAreDomainErrors ==
    \A s \in Sessions :
        sess[s].dbError # "none" =>
            /\ sess[s].finalMsg \notin {"StoppedByUser", "StoppedByOS"}
            /\ sess[s].exc \in {"none", "MarxanServicesError"}
            /\ sess[s].excText = "original"

\* C30: once stop('m'+pid) has signalled the live process of a logged job
\* whose row was not cleared, the row reads Stopped, and the reconciliation
\* of that exit finds it Stopped and does not report a kill by the
\* operating system
C30_StoppedRowBeforeSignal ==
    \A s \in Sessions :
        (hist[s].stopped /\ hist[s].logged /\ ~hist[s].cleared) =>
            IF hist[s].reconciled
            THEN hist[s].endStatus = "Stopped" /\ sess[s].finalMsg # "StoppedByOS"
            ELSE StatusOf(runlog, s) = "Stopped"

\* C31: no frame is written to a channel after its Finished frame, and on a
\* session finalized by a clean close that wrote its Finished frame every
\* later send or close leaves the frames written, the channel, the warnings
\* and the finalized flag as they are and raises nothing
C31_FinalizedSessionIsSilent ==
    /\ [](\A s \in Conns : ~sess[s].late)
    /\ [][\A s \in Conns :
            (sess[s].nFinished = 1 /\ sess[s].flag = "true") =>
                /\ sess'[s].nFinished = 1 /\ sess'[s].finalMsg = sess[s].finalMsg
                /\ sess'[s].nStarted = sess[s].nStarted /\ sess'[s].nPre = sess[s].nPre
                /\ sess'[s].nPing = sess[s].nPing
                /\ sess'[s].chan = sess[s].chan /\ sess'[s].flag = "true"
                /\ sess'[s].warned = sess[s].warned /\ sess'[s].exc = sess[s].exc
                /\ sess'[s].timer = sess[s].timer]_vars

\* a session that wrote its Finished frame in a clean close and on which a
\* frame was sent and close was called afterwards
C31_Witness ==
    \E s \in Sessions : /\ sess[s].nFinished = 1 /\ sess[s].sentAfter
                        /\ sess[s].nClose = 2 /\ sess[s].exc = "none"

\* C32: the final message of a reconciled job whose row is in the ledger
\* agrees with the status of that row: 'Run completed' goes with Completed,
\* 'stopped by <user>' with Stopped, 'stopped by operating system' with Killed
C32_FinalMessageAgreesWithLedger ==
    \A s \in Sessions :
        (hist[s].reconciled /\ hist[s].logged /\ ~hist[s].cleared) =>
            /\ sess[s].finalMsg = "RunCompleted"  => hist[s].endStatus = "Completed"
            /\ sess[s].finalMsg = "StoppedByUser" => hist[s].endStatus = "Stopped"
            /\ sess[s].finalMsg = "StoppedByOS"   => hist[s].endStatus = "Killed"

\* C33: when stop('m'+pid) signals a live process, the ledger row of that pid
\* exists, was still Running when the stop arrived and is the row of the
\* process signalled
C33_SignalOnlyForRunningRow ==
    [][\A p \in Pids :
          (StopM(p) /\ proc[p].state = "alive") =>
              LET i == FirstIdx(runlog, p)
              IN  /\ i # 0
                  /\ runlog[i].status = "Running"
                  /\ runlog[i].rid = proc[p].owner]_vars

\* C34: a stop('m'+pid) served while the job that published 'm'+pid is
\* running terminates its process, whether or not the ledger has a row for
\* that pid
C34_PublishedJobCanBeStopped ==
    [][\A p \in Pids :
          (/\ stopProcess(JobId(p))
           /\ proc[p].state = "alive"
           /\ sess[proc[p].owner].pubId = JobId(p))
              => proc'[p].state # "alive"]_vars

\* C35: a stop carrying the 'q' identifier published by a session whose
\* query has finished cancels no query: the set of cancelled backends is
\* what it was, whoever holds the pooled connection of that identifier now
C35_StaleQueryIdCancelsNothing ==
    [][\A b \in Backends : \A t \in Conns :
          (/\ StopQ(b)
           /\ sess[t].pubId = QueryId(b)
           /\ sess[t].phase \in {"done", "crashed"})
              => db'.cancel = db.cancel]_vars

\* C36: once executeQuery has closed a session because its query was
\* cancelled or hit an operational error, nothing of the session changes any
\* more: its handler holds no pooled connection, writes no project file and
\* calls close no further time
C36_ClosedByExecutorIsOver ==
    [][\A s \in Conns :
          (sess[s].phase = "done" /\ sess[s].finalMsg \in {"StoppedByUser", "StoppedByOS"})
              => /\ sess'[s] = sess[s]
                 /\ \A b \in Backends : db'.busy[b] # s]_vars

\* C37: whenever a session's query executes on a pooled connection, a stop
\* carrying its identifier can be served at once, whatever the other
\* connections of the pool are doing
C37_StopNeverWaitsForPool ==
    \A b \in Backends : db.busy[b] \in Conns => ENABLED StopQ(b)

\* C38: with exit reconciliation on the polling thread and no clear, the row
\* appended for every logged job is in the ledger, and once a stop was served
\* for a job while its row was Running the row never reads Running or Killed
C38_NoLedgerUpdateLost ==
    /\ [](\A s \in WinConns : hist[s].logged => RowIdx(runlog, s) # 0)
    /\ [][\A s \in WinConns :
            StatusOf(runlog, s) = "Stopped" => StatusOf(runlog', s) = "Stopped"]_vars

\* C39: under the polling thread, a job that was logged and whose process
\* has exited does not keep its row Running for ever
C39_ExitedJobRowResolved ==
    \A s \in Conns :
        (hist[s].logged /\ hist[s].exitKind # "none") ~> (StatusOf(runlog, s) # "Running")

\* C40: a session whose statement could not get a connection because
\* pool.acquire() raised is left with the domain error MarxanServicesError as
\* the exception of its execute, and holds no connection of the pool
C40_AcquireFailureIsDomainError ==
    \A s \in Sessions :
        sess[s].dbError \in AcquireErrors =>
            /\ sess[s].exc = "MarxanServicesError"
            /\ \A b \in Backends : db.busy[b] # s

====
